---- MODULE Spec2Model ----
(***************************************************************************)
(* NeuroScan-AI: the Flask serving process of src/app.py.                  *)
(*                                                                         *)
(* The process imports the module (configuration, TensorFlow import),      *)
(* optionally runs the __main__ block (start-up model load), and then      *)
(* serves /predict, /chat and /health on worker threads.  The only shared  *)
(* mutable state is the pair of module globals DEMO_MODE and model.        *)
(*                                                                         *)
(* A worker thread that finds model None inside load_model is "loading"    *)
(* until its load attempt finishes; every other request is handled in one  *)
(* step, because it touches no shared state between its reads.             *)
(***************************************************************************)
EXTENDS Integers, Sequences, FiniteSets, TLC

VARIABLES
    phase,         \* "import" | "main" | "serving" | "aborted"
    envDemo,       \* environment variable DEMO_MODE is 'true'
    runAsMain,     \* the module is executed as a script (python app.py)
    apiKey,        \* OPENROUTER_API_KEY is a non-empty string
    silentJson,    \* installed Flask: get_json() on a non-JSON request gives None
    DEMO_MODE,     \* module global DEMO_MODE
    TF_AVAILABLE,  \* module global TF_AVAILABLE
    model,         \* module global model: None or a handle
    created,       \* number of handles created so far (source of handle identity)
    startup,       \* what import and the __main__ block did
    pc,            \* per worker thread: "idle" | "loading"
    req,           \* per worker thread: the request being handled while loading
    last           \* the most recent completed request/response exchange

vars == <<phase, envDemo, runAsMain, apiKey, silentJson, DEMO_MODE, TF_AVAILABLE,
          model, created, startup, pc, req, last>>

\* ------------------------------------------------------------------ bounds

NThreads == 2
MaxMsgLen == 2

Threads == 1..NThreads

\* ------------------------------------------------------------ constants

None == 0

CLASS_LABELS == <<"Glioma", "Meningioma", "No Tumor", "Pituitary">>

Labels == {CLASS_LABELS[i] : i \in DOMAIN CLASS_LABELS}

\* ------------------------------------------------------------- requests

\* Characters of a chat message: a whitespace character and a visible one.
Chars == {" ", "a"}

Messages == UNION {[1..n -> Chars] : n \in 0..MaxMsgLen}

NoReq == [upload |-> "none", body |-> "n/a", msg |-> <<>>]

\* What a POST /predict can carry.  upload: the 'image' entry of request.files
\* (absent, present with filename '', present with a name).  body: the JSON side
\* of the request as request.get_json() and the tests on data see it.
JsonBodies ==
    {"absent",            \* no JSON content type (form post, empty post)
     "malformed",         \* JSON content type, body does not parse
     "falsy",             \* null, {}, [], 0, "", false
     "obj_no_image",      \* {"foo": 1}
     "list_no_image",     \* ["foo"]
     "list_with_image",   \* ["image"]
     "scalar",            \* 5, true
     "obj_image_nonstr",  \* {"image": 5}
     "obj_image_badpad",  \* {"image": "abc"}: base64 with incorrect padding
     "obj_image_b64"}     \* {"image": "<base64>"} or a data URL

PredictRequests ==
    {[upload |-> "none", body |-> b, msg |-> <<>>] : b \in JsonBodies}
    \cup {[upload |-> u, body |-> b, msg |-> <<>>] :
             u \in {"empty_name", "file"}, b \in {"absent", "obj_image_b64"}}

ChatRequests ==
    {[upload |-> "none", body |-> b, msg |-> <<>>] :
        b \in {"absent", "malformed", "non_object", "obj_no_message", "obj_msg_nonstr"}}
    \cup {[upload |-> "none", body |-> "obj_msg", msg |-> m] : m \in Messages}

\* ------------------------------------------------------ exchange records

\* The attempts of a load_model call that found the cache filled or was never made.
NoLoad == [shim |-> "not_tried", std |-> "not_tried", exc |-> "none"]

\* One completed request/response exchange, as the client and an observer of
\* the process see it.  ran: the components the handler invoked;
\* load: the attempts its load_model call made.
Blank ==
    [route |-> "none", req |-> NoReq, status |-> 0, success |-> FALSE,
     demo |-> FALSE, error |-> "none", exc |-> "none", ran |-> {},
     handle |-> None, prediction |-> "none", response |-> "none", calls |-> 0,
     model_loaded |-> FALSE, chatbot_configured |-> FALSE, load |-> NoLoad]

\* str(e) of the exceptions the handlers can see.
StrOf(e) ==
    CASE e = "UnsupportedMediaType" -> "415 Unsupported Media Type"
      [] e = "BadRequest" -> "400 Bad Request"
      [] e = "TypeError" -> "argument is not iterable or subscriptable"
      [] e = "AttributeError" -> "object has no attribute"
      [] e = "binascii.Error" -> "Incorrect padding"
      [] e = "UnidentifiedImageError" -> "cannot identify image file"
      [] e = "ShimLoadError" -> "tf_keras could not load the model"
      [] e = "StdLoadError" -> "tf.keras could not load the model"
      [] e = "InferenceError" -> "forward pass failed"
      [] e = "ConnectionError" -> "connection failed"
      [] e = "KeyError" -> "'choices'"
      [] e = "JSONDecodeError" -> "Expecting value"
      [] OTHER -> "unknown"

\* ------------------------------------------------------------ get_json

\* request.get_json(): the parsed body, or the exception Flask raises.  On a
\* request without a JSON content type older Flask returns None and newer Flask
\* raises 415; a JSON body that does not parse raises 400 in both.
get_json(body, silent) ==
    CASE body = "absent" ->
            IF silent THEN [exc |-> "none", data |-> "None"]
            ELSE [exc |-> "UnsupportedMediaType", data |-> "None"]
      [] body = "malformed" -> [exc |-> "BadRequest", data |-> "None"]
      [] OTHER -> [exc |-> "none", data |-> body]

\* bool(data)
Truthy(data) == data \notin {"None", "falsy"}

\* --------------------------------------------------------------- predict

\* predict(), lines 164-179: the image bytes of the request, the 400 reply, or
\* the exception raised while extracting.
ExtractImage(r, silent) ==
    IF r.upload = "none" THEN
        LET j == get_json(r.body, silent) IN
        IF j.exc # "none" THEN [kind |-> "raise", exc |-> j.exc, error |-> "none"]
        ELSE IF ~Truthy(j.data) THEN
            [kind |-> "400", exc |-> "none", error |-> "No image provided"]
        ELSE IF j.data = "scalar" THEN             \* 'image' in 5
            [kind |-> "raise", exc |-> "TypeError", error |-> "none"]
        ELSE IF j.data \in {"obj_no_image", "list_no_image"} THEN
            [kind |-> "400", exc |-> "none", error |-> "No image provided"]
        ELSE IF j.data = "list_with_image" THEN    \* data['image'] on a list
            [kind |-> "raise", exc |-> "TypeError", error |-> "none"]
        ELSE IF j.data = "obj_image_nonstr" THEN   \* ',' in 5
            [kind |-> "raise", exc |-> "TypeError", error |-> "none"]
        ELSE IF j.data = "obj_image_badpad" THEN   \* base64.b64decode
            [kind |-> "raise", exc |-> "binascii.Error", error |-> "none"]
        ELSE [kind |-> "bytes", exc |-> "none", error |-> "none"]
    ELSE IF r.upload = "empty_name" THEN
        [kind |-> "400", exc |-> "none", error |-> "No image selected"]
    ELSE [kind |-> "bytes", exc |-> "none", error |-> "none"]

\* predict(), line 174 / 178: the 400 reply.
Reply400(r, msg) ==
    [Blank EXCEPT !.route = "predict", !.req = r, !.status = 400, !.error = msg]

HandlerBoundary_Generic(r, e, ran) ==
    [Blank EXCEPT !.route = "predict", !.req = r, !.status = 500,
                  !.error = "Internal Server Error", !.exc = e, !.ran = ran]

\* predict(), lines 221-222: except Exception as e -> 500 with str(e).
HandlerBoundary(r, e, ran) ==
    [Blank EXCEPT !.route = "predict", !.req = r, !.status = 500,
                  !.error = StrOf(e), !.exc = e, !.ran = ran]

\* predict(), lines 182-192: the demo reply (demo_predict's label is random).
DemoReply(r, label) ==
    [Blank EXCEPT !.route = "predict", !.req = r, !.status = 200, !.success = TRUE,
                  !.demo = TRUE, !.prediction = label,
                  !.ran = {"sleep", "demo_predict"}]

\* How preprocessing and the forward pass of one request can go: the bytes are
\* no image, the forward pass raises, or the arg-max class comes out.
InferenceRuns == {"bad_image", "forward_fails"} \cup Labels

\* predict(), lines 197-219: preprocess, forward pass and the reply, with the
\* handle h that load_model returned.
Infer(r, h, ran, out) ==
    IF out = "bad_image" THEN
        HandlerBoundary(r, "UnidentifiedImageError", ran \cup {"preprocess_image"})
    ELSE IF h = None THEN                          \* None.predict(...)
        HandlerBoundary(r, "AttributeError", ran \cup {"preprocess_image"})
    ELSE IF out = "forward_fails" THEN
        HandlerBoundary(r, "InferenceError", ran \cup {"preprocess_image", "forward"})
    ELSE
        [Blank EXCEPT !.route = "predict", !.req = r, !.status = 200,
                      !.success = TRUE, !.handle = h, !.prediction = out,
                      !.ran = ran \cup {"preprocess_image", "forward"}]

UseDemo_Never == FALSE

\* predict(), line 182: if DEMO_MODE.
UseDemo == DEMO_MODE

\* ------------------------------------------------------------ load_model

LoadOutcomes == {"ok", "unavailable", "error"}

LoadAttempt_FallBackAlways(shimOut, stdOut) ==
    IF shimOut = "ok" THEN [shim |-> "ok", std |-> "not_tried", exc |-> "none"]
    ELSE IF stdOut = "ok" THEN [shim |-> shimOut, std |-> "ok", exc |-> "none"]
    ELSE [shim |-> shimOut, std |-> "error", exc |-> "StdLoadError"]

\* load_model(), lines 80-104: the body run when model is None.  shimOut: what
\* importing tf_keras and loading through it does ("unavailable": ImportError);
\* stdOut: what tf.keras.models.load_model does.
LoadAttempt(shimOut, stdOut) ==
    IF shimOut = "ok" THEN [shim |-> "ok", std |-> "not_tried", exc |-> "none"]
    ELSE IF shimOut = "unavailable" THEN
        IF stdOut = "ok" THEN [shim |-> "unavailable", std |-> "ok", exc |-> "none"]
        ELSE [shim |-> "unavailable", std |-> "error", exc |-> "StdLoadError"]
    ELSE [shim |-> "error", std |-> "not_tried", exc |-> "ShimLoadError"]

\* The components a load attempt invoked.
LoadRan(L) ==
    {"load_model"} \cup (IF L.shim # "not_tried" THEN {"shim_load"} ELSE {})
                   \cup (IF L.std # "not_tried" THEN {"std_load"} ELSE {})

StoredHandle_Always(L, fresh) == fresh

\* load_model(), lines 83 and 88: model is assigned only when a load returns.
StoredHandle(L, fresh) == IF L.exc = "none" THEN fresh ELSE model

\* ------------------------------------------------------------------ chat

RECURSIVE LStrip(_)
LStrip(m) == IF m # <<>> /\ Head(m) = " " THEN LStrip(Tail(m)) ELSE m

RECURSIVE RStrip(_)
RStrip(m) ==
    IF m # <<>> /\ m[Len(m)] = " " THEN RStrip(SubSeq(m, 1, Len(m) - 1)) ELSE m

\* str.strip(): leading and trailing whitespace removed.
Strip(m) == RStrip(LStrip(m))

UpstreamOutcomes ==
    {"ok",               \* 200 with choices[0].message.content
     "ok_badshape",      \* 200 whose JSON lacks choices
     "non200",           \* another status, body parses
     "non200_badbody",   \* another status, body is not JSON
     "timeout",          \* requests.Timeout
     "conn_error"}       \* any other requests exception

ChatReply(r) == [Blank EXCEPT !.route = "chat", !.req = r]

ChatExcept_500(r, e, n) ==
    [ChatReply(r) EXCEPT !.status = 500, !.error = StrOf(e), !.exc = e, !.calls = n]

\* chat(), lines 303-312: both except clauses answer 200.
ChatExcept(r, e, n) ==
    IF e = "Timeout" THEN
        [ChatReply(r) EXCEPT !.status = 200, !.error = "Request timeout",
                             !.response = "timeout", !.exc = e, !.calls = n]
    ELSE
        [ChatReply(r) EXCEPT !.status = 200, !.error = StrOf(e),
                             !.response = "generic", !.exc = e, !.calls = n]

ChatUpstream_RetryOnce(r, up) ==
    CASE up = "timeout" -> ChatExcept(r, "Timeout", 2)
      [] up = "conn_error" -> ChatExcept(r, "ConnectionError", 2)
      [] up = "non200_badbody" -> ChatExcept(r, "JSONDecodeError", 1)
      [] up = "non200" ->
            [ChatReply(r) EXCEPT !.status = 200, !.error = "API error",
                                 !.response = "api_error", !.calls = 1]
      [] up = "ok_badshape" -> ChatExcept(r, "KeyError", 1)
      [] OTHER ->
            [ChatReply(r) EXCEPT !.status = 200, !.success = TRUE,
                                 !.response = "assistant", !.calls = 1]

\* chat(), lines 279-301: the one requests.post and what is made of its result.
ChatUpstream(r, up) ==
    CASE up = "timeout" -> ChatExcept(r, "Timeout", 1)
      [] up = "conn_error" -> ChatExcept(r, "ConnectionError", 1)
      [] up = "non200_badbody" -> ChatExcept(r, "JSONDecodeError", 1)
      [] up = "non200" ->
            [ChatReply(r) EXCEPT !.status = 200, !.error = "API error",
                                 !.response = "api_error", !.calls = 1]
      [] up = "ok_badshape" -> ChatExcept(r, "KeyError", 1)
      [] OTHER ->
            [ChatReply(r) EXCEPT !.status = 200, !.success = TRUE,
                                 !.response = "assistant", !.calls = 1]

\* chat(), lines 247-248: data.get('message', '').strip(), or the exception.
UserMessage(r, silent) ==
    LET j == get_json(r.body, silent) IN
    IF j.exc # "none" THEN [exc |-> j.exc, text |-> <<>>]
    ELSE IF j.data \in {"None", "non_object", "obj_msg_nonstr"} THEN
        [exc |-> "AttributeError", text |-> <<>>]
    ELSE IF j.data = "obj_no_message" THEN [exc |-> "none", text |-> <<>>]
    ELSE [exc |-> "none", text |-> Strip(r.msg)]

\* chat(), lines 246-312: the whole handler.
ChatHandle(r, key, silent, up) ==
    LET u == UserMessage(r, silent) IN
    IF u.exc # "none" THEN ChatExcept(r, u.exc, 0)
    ELSE IF u.text = <<>> THEN
        [ChatReply(r) EXCEPT !.status = 400, !.error = "No message provided"]
    ELSE IF ~key THEN
        [ChatReply(r) EXCEPT !.status = 200, !.error = "Chatbot not configured",
                             !.response = "not_configured"]
    ELSE ChatUpstream(r, up)

\* ---------------------------------------------------------------- health

\* health(), lines 316-323.
HealthReply ==
    [Blank EXCEPT !.route = "health", !.status = 200, !.demo = DEMO_MODE,
                  !.model_loaded = (model # None), !.chatbot_configured = apiKey]

\* ------------------------------------------------------------------ state

Init ==
    /\ phase = "import"
    /\ envDemo \in BOOLEAN
    /\ runAsMain \in BOOLEAN
    /\ apiKey \in BOOLEAN
    /\ silentJson \in BOOLEAN
    /\ DEMO_MODE = envDemo
    /\ TF_AVAILABLE = FALSE
    /\ model = None
    /\ created = 0
    /\ startup = [tf |-> "pending", load |-> NoLoad]
    /\ pc = [t \in Threads |-> "idle"]
    /\ req = [t \in Threads |-> NoReq]
    /\ last = Blank

\* Module import, lines 25-49: DEMO_MODE from the environment, then the
\* TensorFlow import, which on ImportError switches demo mode on.
Import ==
    /\ phase = "import"
    /\ \E tfOk \in BOOLEAN :
        IF ~DEMO_MODE THEN
            /\ TF_AVAILABLE' = tfOk
            /\ DEMO_MODE' = ~tfOk
            /\ startup' = [startup EXCEPT !.tf = IF tfOk THEN "ok" ELSE "missing"]
        ELSE
            /\ TF_AVAILABLE' = FALSE
            /\ DEMO_MODE' = DEMO_MODE
            /\ startup' = [startup EXCEPT !.tf = "skipped"]
    /\ phase' = IF runAsMain THEN "main" ELSE "serving"
    /\ UNCHANGED <<envDemo, runAsMain, apiKey, silentJson, model, created,
                   pc, req, last>>

StartupLoad_NoCatch(L) ==
    /\ model' = StoredHandle(L, created + 1)
    /\ created' = IF L.exc = "none" THEN created + 1 ELSE created
    /\ DEMO_MODE' = DEMO_MODE
    /\ phase' = IF L.exc # "none" THEN "aborted" ELSE "serving"
    /\ startup' = [startup EXCEPT !.load = L]

\* __main__, lines 336-341: load_model() at start-up; a failure is caught and
\* switches demo mode on.
StartupLoad(L) ==
    /\ model' = StoredHandle(L, created + 1)
    /\ created' = IF L.exc = "none" THEN created + 1 ELSE created
    /\ DEMO_MODE' = IF L.exc # "none" THEN TRUE ELSE DEMO_MODE
    /\ phase' = "serving"
    /\ startup' = [startup EXCEPT !.load = L]

\* __main__, lines 326-347, up to app.run.
Main ==
    /\ phase = "main"
    /\ IF DEMO_MODE THEN
            /\ phase' = "serving"
            /\ UNCHANGED <<DEMO_MODE, model, created, startup>>
       ELSE
            \E shimOut \in LoadOutcomes, stdOut \in {"ok", "error"} :
                StartupLoad(LoadAttempt(shimOut, stdOut))
    /\ UNCHANGED <<envDemo, runAsMain, apiKey, silentJson, TF_AVAILABLE, pc, req, last>>

\* A handler returns: the exchange is complete and the thread is free again.
Done(t, x) ==
    /\ last' = x
    /\ pc' = [pc EXCEPT ![t] = "idle"]
    /\ req' = [req EXCEPT ![t] = NoReq]

\* POST /predict, lines 159-222, up to the point where load_model finds
\* model None (line 73); from there the thread is loading.
PredictRecv(t) ==
    /\ phase = "serving"
    /\ pc[t] = "idle"
    /\ \E r \in PredictRequests :
        LET x == ExtractImage(r, silentJson) IN
        IF x.kind = "400" THEN Done(t, Reply400(r, x.error))
        ELSE IF x.kind = "raise" THEN Done(t, HandlerBoundary(r, x.exc, {}))
        ELSE IF UseDemo THEN \E label \in Labels : Done(t, DemoReply(r, label))
        ELSE IF DEMO_MODE THEN      \* load_model, lines 69-71: returns None
            \E out \in InferenceRuns : Done(t, Infer(r, None, {"load_model"}, out))
        ELSE IF model # None THEN   \* load_model, lines 73 and 106: the cache
            \E out \in InferenceRuns : Done(t, Infer(r, model, {"load_model"}, out))
        ELSE
            /\ pc' = [pc EXCEPT ![t] = "loading"]
            /\ req' = [req EXCEPT ![t] = r]
            /\ last' = last
    /\ UNCHANGED <<phase, envDemo, runAsMain, apiKey, silentJson, DEMO_MODE,
                   TF_AVAILABLE, model, created, startup>>

\* load_model, lines 74-106, finishing in a thread that found model None, and
\* the rest of predict (lines 197-222) with the handle it returns.
LoadFinish(t) ==
    /\ pc[t] = "loading"
    /\ \E shimOut \in LoadOutcomes, stdOut \in {"ok", "error"} :
        LET L == LoadAttempt(shimOut, stdOut) IN
        /\ model' = StoredHandle(L, created + 1)
        /\ created' = IF L.exc = "none" THEN created + 1 ELSE created
        /\ IF L.exc # "none"
           THEN Done(t, [HandlerBoundary(req[t], L.exc, LoadRan(L)) EXCEPT !.load = L])
           ELSE \E out \in InferenceRuns :
                    Done(t, [Infer(req[t], model', LoadRan(L), out) EXCEPT !.load = L])
    /\ UNCHANGED <<phase, envDemo, runAsMain, apiKey, silentJson, DEMO_MODE,
                   TF_AVAILABLE, startup>>

\* POST /chat, lines 243-312, handled by a free worker thread; the handler
\* reads and writes nothing the threads share.
Chat ==
    /\ phase = "serving"
    /\ \E t \in Threads : pc[t] = "idle"
    /\ \E r \in ChatRequests :
        LET u == UserMessage(r, silentJson) IN
        IF u.exc = "none" /\ u.text # <<>> /\ apiKey
        THEN \E up \in UpstreamOutcomes : last' = ChatHandle(r, apiKey, silentJson, up)
        ELSE last' = ChatHandle(r, apiKey, silentJson, "ok")
    /\ UNCHANGED <<phase, envDemo, runAsMain, apiKey, silentJson, DEMO_MODE,
                   TF_AVAILABLE, model, created, startup, pc, req>>

\* GET /health, lines 315-323, handled by a free worker thread.
Health ==
    /\ phase = "serving"
    /\ \E t \in Threads : pc[t] = "idle"
    /\ last' = HealthReply
    /\ UNCHANGED <<phase, envDemo, runAsMain, apiKey, silentJson, DEMO_MODE,
                   TF_AVAILABLE, model, created, startup, pc, req>>

Next ==
    \/ Import
    \/ Main
    \/ \E t \in Threads : PredictRecv(t)
    \/ \E t \in Threads : LoadFinish(t)
    \/ Chat
    \/ Health

Spec == Init /\ [][Next]_vars

TypeOK ==
    /\ phase \in {"import", "main", "serving", "aborted"}
    /\ DEMO_MODE \in BOOLEAN
    /\ model \in 0..(NThreads + 1)
    /\ pc \in [Threads -> {"idle", "loading"}]
    /\ last.status \in {0, 200, 400, 500}

\* ================================================================ claims

\* Some thread finishes the load attempt it was running.
LoadRuns == \E t \in Threads : pc[t] = "loading" /\ pc'[t] = "idle"

\* Some thread calls load_model, finds no cached handle and starts a load.
LoadStarts == \E t \in Threads : pc[t] = "idle" /\ pc'[t] = "loading"

\* C1: in real mode, once a load_model call has stored a handle, every later
\* call returns that same handle and makes no load attempt (legacy shim or
\* standard runtime): the stored handle is never replaced, no call made from
\* then on starts a load, and every later successful prediction used that
\* handle.
C1_CachedHandleIsFinal ==
    [][(~DEMO_MODE /\ model # None) =>
          /\ model' = model
          /\ ~LoadStarts
          /\ (last' # last /\ last'.route = "predict" /\ last'.status = 200
                => last'.handle = model)]_vars

\* The request carries no image: no upload and no JSON object with an 'image'
\* field, or an upload whose filename is empty.
NoImage(r) ==
    \/ r.upload = "empty_name"
    \/ /\ r.upload = "none"
       /\ r.body \notin {"obj_image_nonstr", "obj_image_badpad", "obj_image_b64"}

\* C2: POST /predict answers 400 whenever the request carries no image (an
\* upload, when present, decides, whatever the JSON body), and in that case
\* nothing is loaded, preprocessed, inferred or simulated and the cached
\* handle is unchanged.
C2_NoImageIs400 ==
    [][(last'.route = "predict" /\ NoImage(last'.req)) =>
          /\ last'.status = 400
          /\ last'.ran = {}
          /\ (last' # last => model' = model)]_vars

\* C3: an exception raised at any step of /predict (extraction, base64
\* decoding, image decoding, model loading, forward pass) ends the request with
\* a 500 whose body carries the exception's message, and the process is still
\* serving afterwards.
C3_ExceptionsBecome500 ==
    (last.route = "predict" /\ last.exc # "none") =>
        /\ last.status = 500
        /\ last.error = StrOf(last.exc)
        /\ ~last.success
        /\ phase = "serving"

C3_Witness ==
    /\ last.route = "predict"
    /\ last.exc = "StdLoadError"
    /\ last.status = 500
    /\ \E t \in Threads : pc[t] = "idle"

\* The start-up load failed, or TensorFlow could not be imported.
StartupFailed == startup.load.exc # "none" \/ startup.tf = "missing"

\* Image bytes were extracted from the request.
Extracted(r) == ExtractImage(r, silentJson).kind = "bytes"

\* C4: when the start-up load fails or the runtime cannot be imported, the
\* process does not abort, it serves with demo mode on, and every /predict
\* request that carries image bytes gets a 200 demo-flagged simulated result.
C4_StartupFailureServesDemo ==
    StartupFailed =>
        /\ phase # "aborted"
        /\ DEMO_MODE
        /\ (startup.load.exc # "none" => phase = "serving")
        /\ (last.route = "predict" /\ Extracted(last.req) =>
               /\ last.status = 200
               /\ last.success
               /\ last.demo
               /\ last.prediction \in Labels)

C4_Witness ==
    /\ startup.load.exc # "none"
    /\ phase = "serving"
    /\ last.route = "predict"
    /\ Extracted(last.req)
    /\ last.demo

\* C5: in demo mode a /predict request whose image bytes were extracted gets
\* 200 with success and the demo flag and the Demo Predictor's result; the
\* loader, the preprocessor and the forward pass are not invoked, and the
\* model handle stays absent.
C5_DemoNeverTouchesModel ==
    (DEMO_MODE /\ last.route = "predict" /\ Extracted(last.req)) =>
        /\ last.status = 200
        /\ last.success
        /\ last.demo
        /\ last.prediction \in Labels
        /\ last.ran = {"sleep", "demo_predict"}
        /\ last.load = NoLoad
        /\ model = None

C5_Witness ==
    /\ envDemo
    /\ DEMO_MODE
    /\ last.route = "predict"
    /\ last.req.upload = "file"
    /\ last.demo
    /\ model = None

\* The request has a message and nothing is left of it after trimming (a JSON
\* object without 'message' counts: the handler defaults it to '').
TrimmedEmpty(r) ==
    \/ r.body = "obj_no_message"
    \/ r.body = "obj_msg" /\ \A i \in 1..Len(r.msg) : r.msg[i] = " "

\* C6: POST /chat answers 400 exactly when the trimmed message is empty, with
\* or without a credential; every other outcome is answered 200.
C6_Chat400OnlyOnEmpty ==
    last.route = "chat" =>
        /\ last.status \in {200, 400}
        /\ (last.status = 400 <=> TrimmedEmpty(last.req))

C6_Witness ==
    /\ last.route = "chat"
    /\ ~apiKey
    /\ last.req.msg = <<" ", " ">>
    /\ last.status = 400

\* C7 as stated: load_model tries the legacy shim first and the standard
\* runtime whenever the shim yields no handle, and raises only when both
\* attempts have failed.
C7_Original(L) ==
    L # NoLoad =>
        /\ L.shim # "not_tried"
        /\ (L.shim # "ok" => L.std # "not_tried")
        /\ (L.exc # "none" => L.shim # "ok" /\ L.std = "error")

\* C7 (original statement): every load that ran, at start-up or in a request,
\* fell back to the standard runtime when the shim gave no handle and raised
\* only after both attempts failed.
C7_FallbackOnAnyShimFailure == C7_Original(startup.load) /\ C7_Original(last.load)

C7_Amended(L) ==
    L # NoLoad =>
        /\ L.shim # "not_tried"
        /\ (L.std # "not_tried" <=> L.shim = "unavailable")
        /\ (L.exc # "none" <=>
              \/ L.shim = "error"
              \/ L.shim = "unavailable" /\ L.std = "error")

\* C7 (amended): load_model tries the legacy shim first; it tries the standard
\* runtime exactly when the shim is unavailable (ImportError), which is not an
\* error by itself; it raises when the shim is available and its load fails
\* (the standard runtime is then not tried) or when the shim is unavailable and
\* the standard-runtime load fails.  A load runs only in real mode with the
\* cache empty, and a request whose load raised is answered 500.
C7_FallbackOnlyWhenShimUnavailable ==
    /\ C7_Amended(startup.load)
    /\ C7_Amended(last.load)
    /\ (last.load.exc # "none" => last.status = 500 /\ last.exc = last.load.exc)
    /\ (last.load # NoLoad /\ last.load.exc = "none" => model # None)
    /\ (\E t \in Threads : pc[t] = "loading") => ~DEMO_MODE

C7_Witness ==
    /\ last.load.shim = "unavailable"
    /\ last.load.std = "ok"
    /\ last.status = 200
    /\ last.handle = model

\* C8: the load-if-absent check-and-set is mutually exclusive: at most one load
\* attempt executes at a time and the handle is created at most once per process.
C8_SingleLoad ==
    /\ Cardinality({t \in Threads : pc[t] = "loading"}) <= 1
    /\ created <= 1

\* C9: a /chat request makes at most one outbound call, a failed call is not
\* retried, and no call is made when the trimmed message is empty or when no
\* credential is configured (then the canned "not configured" reply is sent).
C9_AtMostOneOutboundCall ==
    last.route = "chat" =>
        /\ last.calls <= 1
        /\ (TrimmedEmpty(last.req) => last.calls = 0)
        /\ (~apiKey => last.calls = 0)
        /\ (~apiKey /\ last.exc = "none" /\ ~TrimmedEmpty(last.req) =>
               last.status = 200 /\ last.response = "not_configured")
        /\ (last.exc \in {"Timeout", "ConnectionError"} => last.calls = 1)

C9_Witness ==
    /\ last.route = "chat"
    /\ last.exc = "Timeout"
    /\ last.calls = 1
    /\ last.status = 200

\* A load attempt ends with an exception in this step.
LoadFails ==
    \/ phase = "main" /\ startup'.load.exc # "none"
    \/ LoadRuns /\ last'.load.exc # "none"

====
